---- MODULE Spec2Model ----
(***************************************************************************)
(* Model of the BigQuery CI/CD scripts:                                    *)
(*   scripts/run_transformations.py  (Transformation Runner)               *)
(*   scripts/load_data.py            (Data Loader)                         *)
(*   test_connection.py              (Diagnostic Tool)                     *)
(* Text is modelled as a sequence of one-character strings, so that        *)
(* str.replace, str.split and str.strip are computed character by          *)
(* character.  The warehouse client is an environment whose calls either   *)
(* return or raise.                                                        *)
(***************************************************************************)
EXTENDS Integers, Sequences, FiniteSets, TLC

VARIABLES
    pc,             \* position of the running entry point
    exit_code,      \* -1 while running, 0/1 once the process has ended
    log,            \* warehouse calls and sleeps, in the order they happened
    config,         \* the loaded configuration mapping
    file_exists,    \* os.path.exists(sql_path)
    file_text,      \* content of the SQL file
    sql_content,    \* SQL text after substitute_parameters
    statements,     \* the list built at run_transformations.py:111
    idx,            \* loop index i of run_sql_file (1-based)
    dataset_exists, \* warehouse: the dataset is present
    dataset_location, \* warehouse: location the dataset was created with
    table_rows,     \* warehouse: rows of the target table
    csv_rows,       \* lines of the local CSV file (header first)
    runs,           \* number of Data Loader runs started
    key_set,        \* GCP_SERVICE_ACCOUNT_KEY is present in the environment
    key,            \* its value
    success,        \* test_connection.main: local variable success
    results         \* return values of test_environment / test_bigquery_connection

vars == << pc, exit_code, log, config, file_exists, file_text, sql_content,
           statements, idx, dataset_exists, dataset_location, table_rows,
           csv_rows, runs, key_set, key, success, results >>

runnerVars == << file_exists, file_text, sql_content, statements, idx >>
loaderVars == << dataset_exists, dataset_location, table_rows, csv_rows, runs >>
diagVars   == << key_set, key, success, results >>

(***************************************************************************)
(* Bounds of the model.                                                    *)
(***************************************************************************)
MaxTextLen == 4     \* length of the enumerated SQL file texts
MaxPieces  == 3     \* pieces concatenated into a substitution input
MaxKeyLen  == 3     \* length of the enumerated credential values
MaxRows    == 2     \* data rows of a CSV file
MaxRuns    == 2     \* Data Loader runs in succession

(***************************************************************************)
(* Text helpers.                                                           *)
(***************************************************************************)
Whitespace == {" ", "\n", "\t"}

RECURSIVE Replace(_, _, _)
\* str.replace(old, new): leftmost, non-overlapping occurrences of old.
Replace(s, old, new) ==
    IF Len(s) < Len(old) THEN s
    ELSE IF SubSeq(s, 1, Len(old)) = old
         THEN new \o Replace(SubSeq(s, Len(old) + 1, Len(s)), old, new)
         ELSE <<s[1]>> \o Replace(Tail(s), old, new)

RECURSIVE Split(_, _)
\* str.split(sep) for a one-character separator: every fragment is kept.
Split(s, sep) ==
    IF \A k \in 1..Len(s) : s[k] # sep THEN <<s>>
    ELSE LET k == CHOOSE j \in 1..Len(s) :
                      s[j] = sep /\ \A m \in 1..(j - 1) : s[m] # sep
         IN  <<SubSeq(s, 1, k - 1)>> \o Split(SubSeq(s, k + 1, Len(s)), sep)

RECURSIVE LStrip(_)
LStrip(s) == IF s # <<>> /\ s[1] \in Whitespace THEN LStrip(Tail(s)) ELSE s

RECURSIVE RStrip(_)
RStrip(s) ==
    IF s # <<>> /\ s[Len(s)] \in Whitespace
    THEN RStrip(SubSeq(s, 1, Len(s) - 1)) ELSE s

\* str.strip()
Strip(s) == RStrip(LStrip(s))

\* str.startswith(prefix)
StartsWith(s, prefix) ==
    Len(s) >= Len(prefix) /\ SubSeq(s, 1, Len(prefix)) = prefix

(***************************************************************************)
(* substitute_parameters                                                   *)
(***************************************************************************)
PH_PROJECT == <<"{","p","r","o","j","e","c","t","_","i","d","}">>
PH_DATASET == <<"{","d","a","t","a","s","e","t","_","i","d","}">>
PH_TABLE   == <<"{","t","a","b","l","e","_","i","d","}">>

\* A plausible slip: the third placeholder is never replaced.
substitute_parameters_two(sql, cfg) ==
    Replace(Replace(sql, PH_PROJECT, cfg.gcp_project_id),
            PH_DATASET, cfg.dataset_id)

\* The dict is iterated in insertion order: project, dataset, table; each
\* replace works on the output of the previous one.
substitute_parameters(sql, cfg) ==
    Replace(Replace(Replace(sql, PH_PROJECT, cfg.gcp_project_id),
                    PH_DATASET, cfg.dataset_id),
            PH_TABLE, cfg.table_id)

\* A plausible slip: fragments are split but never stripped or filtered.
SplitStatementsRaw(sql) == Split(sql, ";")

\* statements = [s.strip() for s in sql_content.split(';') if s.strip()]
SplitStatements(sql) ==
    LET frags == Split(sql, ";")
        stripped == [k \in DOMAIN frags |-> Strip(frags[k])]
    IN  SelectSeq(stripped, LAMBDA f : f # <<>>)

(***************************************************************************)
(* Inputs.                                                                 *)
(***************************************************************************)
RECURSIVE TextsUpTo(_, _)
\* All texts over alphabet of length at most n.
TextsUpTo(alphabet, n) ==
    IF n = 0 THEN {<<>>}
    ELSE LET shorter == TextsUpTo(alphabet, n - 1)
         IN  shorter \cup {<<c>> \o t : c \in alphabet, t \in {u \in shorter : Len(u) = n - 1}}

StdConfig ==
    [gcp_project_id |-> <<"p">>, dataset_id |-> <<"d">>,
     table_id |-> <<"t">>, location |-> "US"]

NoConfig ==
    [gcp_project_id |-> <<>>, dataset_id |-> <<>>, table_id |-> <<>>, location |-> ""]

ExampleSQL ==
    <<"S","E","L","E","C","T"," ","*"," ","F","R","O","M"," ">>
        \o PH_PROJECT \o <<".">> \o PH_DATASET \o <<".">> \o PH_TABLE
ExampleOut ==
    <<"S","E","L","E","C","T"," ","*"," ","F","R","O","M"," ","p",".","d",".","t">>

SubstPieces ==
    { PH_PROJECT, PH_DATASET, PH_TABLE, <<"{","d","a","t","a">>,
      <<"_","i","d","}">>, <<".">>, <<"x">> }

RECURSIVE PieceTexts(_)
PieceTexts(n) ==
    IF n = 0 THEN {<<>>}
    ELSE LET shorter == PieceTexts(n - 1)
         IN  shorter \cup {p \o t : p \in SubstPieces, t \in shorter}

SubstConfigs ==
    { [gcp_project_id |-> p, dataset_id |-> d, table_id |-> <<"t">>, location |-> "US"] :
        p \in { <<"p">>, <<"s","e","t">>, PH_DATASET },
        d \in { <<"d">>, PH_TABLE } }

\* Idle values of the variables an entry point does not use.
RunnerIdle ==
    /\ file_exists = FALSE /\ file_text = <<>> /\ sql_content = <<>>
    /\ statements = <<>> /\ idx = 0
LoaderIdle ==
    /\ dataset_exists = FALSE /\ dataset_location = "" /\ table_rows = <<>>
    /\ csv_rows = <<>> /\ runs = 0
DiagIdle ==
    /\ key_set = FALSE /\ key = <<>> /\ success = TRUE /\ results = <<>>

(***************************************************************************)
(* substitute_parameters applied to bounded inputs.                        *)
(***************************************************************************)
InitSubst ==
    /\ pc = "subst"
    /\ exit_code = -1
    /\ log = <<>>
    /\ \/ config \in SubstConfigs /\ file_text \in PieceTexts(MaxPieces)
       \/ config = StdConfig /\ file_text = ExampleSQL
    /\ file_exists = TRUE
    /\ sql_content = <<>> /\ statements = <<>> /\ idx = 0
    /\ LoaderIdle /\ DiagIdle

Substitute ==
    /\ pc = "subst"
    /\ sql_content' = substitute_parameters(file_text, config)
    /\ pc' = "subst_done"
    /\ UNCHANGED << exit_code, log, config, file_exists, file_text, statements,
                    idx, loaderVars, diagVars >>

NextSubst == Substitute

SpecSubst == InitSubst /\ [][NextSubst]_vars

(***************************************************************************)
(* Transformation Runner: run_transformations.py main.                     *)
(***************************************************************************)
SqlAlphabet == {"A", ";", " ", "-", "\n"}

SampleTexts ==
    { <<"A",";"," ","B",";",";"," ","C">>,
      <<"A",";","B",";","C">>,
      <<"-","-","c","\n","A",";","B">>,
      <<"A",";","-","-","c",";","B">>,
      ExampleSQL \o <<";">> }

SqlTexts == TextsUpTo(SqlAlphabet, MaxTextLen) \cup SampleTexts

DEPARTMENT_SUMMARY ==
    <<"d","e","p","a","r","t","m","e","n","t","_","s","u","m","m","a","r","y">>

\* table_id of verify_transformations
summary_table_id(cfg) ==
    cfg.gcp_project_id \o <<".">> \o cfg.dataset_id \o <<".">> \o DEPARTMENT_SUMMARY

\* verify_query of verify_transformations (column list, quoting and ORDER BY left out)
verify_query(cfg) ==
    <<"S","E","L","E","C","T"," ","F","R","O","M"," ">> \o summary_table_id(cfg)

Event(kind, origin, sql, ok, secs) ==
    [kind |-> kind, origin |-> origin, sql |-> sql, ok |-> ok, secs |-> secs]

InitRunner ==
    /\ pc = "main"
    /\ exit_code = -1
    /\ log = <<>>
    /\ config = NoConfig
    /\ file_exists \in BOOLEAN
    /\ file_text \in (IF file_exists THEN SqlTexts ELSE {<<>>})
    /\ sql_content = <<>> /\ statements = <<>> /\ idx = 0
    /\ LoaderIdle /\ DiagIdle

\* config = load_config(): yaml parsed, or the exception leaves main.
RunnerLoadConfig ==
    /\ pc = "main"
    /\ \/ config' = StdConfig /\ pc' = "client" /\ UNCHANGED exit_code
       \/ config' = config /\ pc' = "raised" /\ exit_code' = 1
    /\ UNCHANGED << log, runnerVars, loaderVars, diagVars >>

\* client = get_bigquery_client(config)
RunnerGetClient ==
    /\ pc = "client"
    /\ \/ /\ log' = Append(log, Event("client", "main", <<>>, TRUE, 0))
          /\ pc' = "run_sql_file" /\ UNCHANGED exit_code
       \/ log' = log /\ pc' = "raised" /\ exit_code' = 1
    /\ UNCHANGED << config, runnerVars, loaderVars, diagVars >>

\* if not os.path.exists(sql_path): return
RunSqlFileMissing ==
    /\ pc = "run_sql_file"
    /\ ~file_exists
    /\ pc' = "wait"
    /\ UNCHANGED << exit_code, log, config, runnerVars, loaderVars, diagVars >>

\* read, substitute, split
RunSqlFileRead ==
    /\ pc = "run_sql_file"
    /\ file_exists
    /\ sql_content' = substitute_parameters(file_text, config)
    /\ statements' = SplitStatements(sql_content')
    /\ idx' = 1
    /\ pc' = "loop"
    /\ UNCHANGED << exit_code, log, config, file_exists, file_text, loaderVars, diagVars >>

\* if statement.startswith('--') or not statement
IsSkipped(statement) == StartsWith(statement, <<"-", "-">>) \/ statement = <<>>

\* the for loop is exhausted: run_sql_file returns
RunSqlFileReturn ==
    /\ pc = "loop"
    /\ idx > Len(statements)
    /\ pc' = "wait"
    /\ UNCHANGED << exit_code, log, config, runnerVars, loaderVars, diagVars >>

\* continue
SkipStatement ==
    /\ pc = "loop"
    /\ idx <= Len(statements)
    /\ IsSkipped(statements[idx])
    /\ idx' = idx + 1
    /\ UNCHANGED << pc, exit_code, log, config, file_exists, file_text,
                    sql_content, statements, loaderVars, diagVars >>

\* A plausible slip: the delay is left out.
ExecuteStatementOkNoSleep ==
    /\ pc = "loop"
    /\ idx <= Len(statements)
    /\ ~IsSkipped(statements[idx])
    /\ log' = Append(log, Event("query", "run_sql_file", statements[idx], TRUE, 0))
    /\ idx' = idx + 1
    /\ UNCHANGED << pc, exit_code, config, file_exists, file_text, sql_content,
                    statements, loaderVars, diagVars >>

\* execute_sql returns: client.query and query_job.result() succeeded
ExecuteStatementOk ==
    /\ pc = "loop"
    /\ idx <= Len(statements)
    /\ ~IsSkipped(statements[idx])
    /\ log' = Append(log, Event("query", "run_sql_file", statements[idx], TRUE, 0))
    /\ pc' = "sleep"
    /\ UNCHANGED << exit_code, config, runnerVars, loaderVars, diagVars >>

\* time.sleep(1), then the next iteration
SleepAfterStatement ==
    /\ pc = "sleep"
    /\ log' = Append(log, Event("sleep", "run_sql_file", <<>>, TRUE, 1))
    /\ idx' = idx + 1
    /\ pc' = "loop"
    /\ UNCHANGED << exit_code, config, file_exists, file_text, sql_content,
                    statements, loaderVars, diagVars >>

\* A plausible slip: the error of a statement leaves run_sql_file and main.
ExecuteStatementErrorRaise ==
    /\ pc = "loop"
    /\ idx <= Len(statements)
    /\ ~IsSkipped(statements[idx])
    /\ log' = Append(log, Event("query", "run_sql_file", statements[idx], FALSE, 0))
    /\ pc' = "raised"
    /\ exit_code' = 1
    /\ UNCHANGED << config, runnerVars, loaderVars, diagVars >>

\* execute_sql re-raises; except Exception at line 128 prints and goes on
ExecuteStatementError ==
    /\ pc = "loop"
    /\ idx <= Len(statements)
    /\ ~IsSkipped(statements[idx])
    /\ log' = Append(log, Event("query", "run_sql_file", statements[idx], FALSE, 0))
    /\ idx' = idx + 1
    /\ UNCHANGED << pc, exit_code, config, file_exists, file_text, sql_content,
                    statements, loaderVars, diagVars >>

\* time.sleep(3) in main
WaitForProcessing ==
    /\ pc = "wait"
    /\ log' = Append(log, Event("sleep", "main", <<>>, TRUE, 3))
    /\ pc' = "verify"
    /\ UNCHANGED << exit_code, config, runnerVars, loaderVars, diagVars >>

\* client.get_table(table_id): absent (or any error) returns from verification
VerifyGetTable ==
    /\ pc = "verify"
    /\ \E ok \in BOOLEAN :
          /\ log' = Append(log, Event("get_table", "verify", summary_table_id(config), ok, 0))
          /\ pc' = IF ok THEN "verify_query" ELSE "finish"
    /\ UNCHANGED << exit_code, config, runnerVars, loaderVars, diagVars >>

\* results = execute_sql(client, verify_query, ...) succeeded
VerifyQueryOk ==
    /\ pc = "verify_query"
    /\ log' = Append(log, Event("query", "verify", verify_query(config), TRUE, 0))
    /\ pc' = "print_rows"
    /\ UNCHANGED << exit_code, config, runnerVars, loaderVars, diagVars >>

\* A plausible slip: the verification error is not caught.
VerifyQueryErrorRaise ==
    /\ pc = "verify_query"
    /\ log' = Append(log, Event("query", "verify", verify_query(config), FALSE, 0))
    /\ pc' = "raised"
    /\ exit_code' = 1
    /\ UNCHANGED << config, runnerVars, loaderVars, diagVars >>

\* the verification query raised: caught at line 173
VerifyQueryError ==
    /\ pc = "verify_query"
    /\ log' = Append(log, Event("query", "verify", verify_query(config), FALSE, 0))
    /\ pc' = "finish"
    /\ UNCHANGED << exit_code, config, runnerVars, loaderVars, diagVars >>

\* the for loop over the rows: printed, or a formatting error caught at line 173
PrintRows ==
    /\ pc = "print_rows"
    /\ \E ok \in BOOLEAN :
          log' = Append(log, Event("print_rows", "verify", <<>>, ok, 0))
    /\ pc' = "finish"
    /\ UNCHANGED << exit_code, config, runnerVars, loaderVars, diagVars >>

\* return 0
RunnerReturn ==
    /\ pc = "finish"
    /\ exit_code' = 0
    /\ pc' = "done"
    /\ UNCHANGED << log, config, runnerVars, loaderVars, diagVars >>

NextRunner ==
    \/ RunnerLoadConfig
    \/ RunnerGetClient
    \/ RunSqlFileMissing
    \/ RunSqlFileRead
    \/ RunSqlFileReturn
    \/ SkipStatement
    \/ ExecuteStatementOk
    \/ SleepAfterStatement
    \/ ExecuteStatementError
    \/ WaitForProcessing
    \/ VerifyGetTable
    \/ VerifyQueryOk
    \/ VerifyQueryError
    \/ PrintRows
    \/ RunnerReturn

SpecRunner == InitRunner /\ [][NextRunner]_vars

(***************************************************************************)
(* Claims about the Transformation Runner.                                 *)
(***************************************************************************)
IsRunQuery(e) == e.kind = "query" /\ e.origin = "run_sql_file"

\* The SQL texts run_sql_file has submitted, in submission order.
SubmittedSQL ==
    LET qs == SelectSeq(log, IsRunQuery)
    IN  [k \in DOMAIN qs |-> qs[k].sql]

\* Number of statements of the list the loop has dealt with.
Handled ==
    CASE pc = "loop"  -> idx - 1
      [] pc = "sleep" -> idx
      [] pc \in {"wait", "verify", "verify_query", "print_rows", "finish", "done"}
                      -> Len(statements)
      [] OTHER        -> 0

ClientBuilt == \E k \in DOMAIN log : log[k].kind = "client"

NotCommentLed(st) == ~StartsWith(st, <<"-", "-">>)

\* C1: whatever subset of the statements raised an error, every statement the
\* loop has passed (other than the comment-led ones it skips in every run) has
\* been submitted, in file order, failed ones included, and no error of a
\* statement leaves run_sql_file.
C1_ContinuesAfterFailure ==
    /\ SubmittedSQL = SelectSeq(SubSeq(statements, 1, Handled), NotCommentLed)
    /\ (\E k \in DOMAIN log : IsRunQuery(log[k])) => pc # "raised"

\* A statement failed, a later statement was still submitted, and main ended.
C1_Witness ==
    /\ pc = "done"
    /\ \E j, k \in DOMAIN log :
          /\ j < k
          /\ IsRunQuery(log[j]) /\ ~log[j].ok
          /\ IsRunQuery(log[k])

Lines(s) == Split(s, "\n")

\* The fragment holds SQL text outside of -- comments.
HasExecutableText(frag) ==
    \E k \in DOMAIN Lines(frag) :
        LET line == Strip(Lines(frag)[k])
        IN  line # <<>> /\ ~StartsWith(line, <<"-", "-">>)

\* C2 (as claimed): once run_sql_file has returned, the submitted statements
\* are exactly the fragments of the split text that hold executable SQL, each
\* once and in file order; only empty and comment-only fragments are dropped.
C2_OnlyCommentOnlyDiscarded ==
    (file_exists /\ pc \in {"wait", "verify", "verify_query", "print_rows", "finish", "done"})
        => SubmittedSQL =
              LET frags == Split(sql_content, ";")
                  stripped == [k \in DOMAIN frags |-> Strip(frags[k])]
              IN  SelectSeq(stripped, HasExecutableText)

Nth(S, k) == CHOOSE a \in S : Cardinality({b \in S : b < a}) = k - 1

\* Fragments between semicolons, by position.
FragmentsByPosition(text) ==
    LET cuts == {0, Len(text) + 1} \cup {k \in 1..Len(text) : text[k] = ";"}
    IN  [k \in 1..(Cardinality(cuts) - 1) |->
            SubSeq(text, Nth(cuts, k) + 1, Nth(cuts, k + 1) - 1)]

\* The fragment from its first to its last non-whitespace character.
Trimmed(f) ==
    LET inked == {k \in 1..Len(f) : f[k] \notin Whitespace}
    IN  IF inked = {} THEN <<>>
        ELSE SubSeq(f, Nth(inked, 1), Nth(inked, Cardinality(inked)))

StatementsBuilt ==
    file_exists /\ pc \in {"loop", "sleep", "wait", "verify", "verify_query",
                           "print_rows", "finish", "done"}

\* C9: the statement list holds the trimmed fragments between semicolons, in
\* order, with the empty and whitespace-only ones dropped; no statement is
\* empty or holds a semicolon; 'A; B;; C' yields <<A, B, C>>.
C9_SplitterYieldsTrimmedFragments ==
    StatementsBuilt =>
        /\ statements =
              LET frags == FragmentsByPosition(sql_content)
                  trimmed == [k \in DOMAIN frags |-> Trimmed(frags[k])]
              IN  SelectSeq(trimmed, LAMBDA f : f # <<>>)
        /\ \A k \in DOMAIN statements :
              /\ statements[k] # <<>>
              /\ \A m \in DOMAIN statements[k] : statements[k][m] # ";"
        /\ sql_content = <<"A",";"," ","B",";",";"," ","C">>
              => statements = << <<"A">>, <<"B">>, <<"C">> >>

\* 'A; B;; C' has been split.
C9_Witness ==
    /\ StatementsBuilt
    /\ sql_content = <<"A",";"," ","B",";",";"," ","C">>
    /\ Len(statements) = 3

IsDelay(e) == e.kind = "sleep" /\ e.origin = "run_sql_file"

RowValues == {"r1", "r2"}

\* CSV files: empty, or a header line followed by at most MaxRows data rows.
CsvFiles == {<<>>} \cup {<<"header">> \o rows : rows \in TextsUpTo(RowValues, MaxRows)}

LoaderEvent(kind, ok, location, rows) ==
    [kind |-> kind, run |-> runs, ok |-> ok, existed |-> dataset_exists,
     location |-> location, rows |-> rows]

\* skip_leading_rows=n of the load job
SkipLeadingRows(rows, n) ==
    IF Len(rows) <= n THEN <<>> ELSE SubSeq(rows, n + 1, Len(rows))

\* A plausible slip: WriteDisposition.WRITE_APPEND.
WriteAppend(existing, loaded) == existing \o loaded

\* write_disposition=WriteDisposition.WRITE_TRUNCATE
WriteDisposition(existing, loaded) == loaded

InitLoader ==
    /\ pc = "main"
    /\ exit_code = -1
    /\ log = <<>>
    /\ config = NoConfig
    /\ RunnerIdle /\ DiagIdle
    /\ dataset_exists \in BOOLEAN
    /\ dataset_location = (IF dataset_exists THEN "US" ELSE "")
    /\ table_rows \in (IF dataset_exists THEN TextsUpTo(RowValues, 1) ELSE {<<>>})
    /\ csv_rows \in CsvFiles
    /\ runs = 1

Raise ==
    /\ pc' = "raised"
    /\ exit_code' = 1

\* config = load_config()
LoaderLoadConfig ==
    /\ pc = "main"
    /\ \/ /\ config' = StdConfig /\ pc' = "client" /\ UNCHANGED exit_code
          /\ log' = Append(log, LoaderEvent("load_config", TRUE, "", <<>>))
       \/ /\ config' = config /\ Raise
          /\ log' = Append(log, LoaderEvent("load_config", FALSE, "", <<>>))
    /\ UNCHANGED << runnerVars, loaderVars, diagVars >>

\* client = get_bigquery_client(config)
LoaderGetClient ==
    /\ pc = "client"
    /\ \/ /\ pc' = "get_dataset" /\ UNCHANGED exit_code
          /\ log' = Append(log, LoaderEvent("client", TRUE, "", <<>>))
       \/ /\ Raise
          /\ log' = Append(log, LoaderEvent("client", FALSE, "", <<>>))
    /\ UNCHANGED << config, runnerVars, loaderVars, diagVars >>

\* client.get_dataset(dataset_id) returned: the dataset exists
GetDatasetOk ==
    /\ pc = "get_dataset"
    /\ dataset_exists
    /\ log' = Append(log, LoaderEvent("get_dataset", TRUE, "", <<>>))
    /\ pc' = "schema"
    /\ UNCHANGED << exit_code, config, runnerVars, loaderVars, diagVars >>

\* client.get_dataset raised (NotFound, or any other error of the call):
\* except Exception goes on to create the dataset
GetDatasetRaises ==
    /\ pc = "get_dataset"
    /\ log' = Append(log, LoaderEvent("get_dataset", FALSE, "", <<>>))
    /\ pc' = "create_dataset"
    /\ UNCHANGED << exit_code, config, runnerVars, loaderVars, diagVars >>

\* client.create_dataset(dataset): created with config['location'], or the
\* call raises (Conflict when the dataset exists) and the error leaves main
CreateDataset ==
    /\ pc = "create_dataset"
    /\ \/ /\ ~dataset_exists
          /\ dataset_exists' = TRUE
          /\ dataset_location' = config.location
          /\ log' = Append(log, LoaderEvent("create_dataset", TRUE, config.location, <<>>))
          /\ pc' = "schema" /\ UNCHANGED exit_code
       \/ /\ log' = Append(log, LoaderEvent("create_dataset", FALSE, config.location, <<>>))
          /\ Raise
          /\ UNCHANGED << dataset_exists, dataset_location >>
    /\ UNCHANGED << config, runnerVars, table_rows, csv_rows, runs, diagVars >>

\* schema = load_table_schema(config['schema_file'])
LoadTableSchema ==
    /\ pc = "schema"
    /\ \/ /\ pc' = "submit" /\ UNCHANGED exit_code
          /\ log' = Append(log, LoaderEvent("schema", TRUE, "", <<>>))
       \/ /\ Raise
          /\ log' = Append(log, LoaderEvent("schema", FALSE, "", <<>>))
    /\ UNCHANGED << config, runnerVars, loaderVars, diagVars >>

\* A plausible slip: a submission error is swallowed and the wait goes on.
SubmitLoadJobSwallow ==
    /\ pc = "submit"
    /\ \E ok \in BOOLEAN :
          log' = Append(log, LoaderEvent("submit", ok, "", <<>>))
    /\ pc' = "wait_job"
    /\ UNCHANGED << exit_code, config, runnerVars, loaderVars, diagVars >>

\* open(csv_path) and client.load_table_from_file(...)
SubmitLoadJob ==
    /\ pc = "submit"
    /\ \/ /\ pc' = "wait_job" /\ UNCHANGED exit_code
          /\ log' = Append(log, LoaderEvent("submit", TRUE, "", <<>>))
       \/ /\ Raise
          /\ log' = Append(log, LoaderEvent("submit", FALSE, "", <<>>))
    /\ UNCHANGED << config, runnerVars, loaderVars, diagVars >>

\* load_job.result(): the job completed and wrote the table, or it failed
WaitLoadJob ==
    /\ pc = "wait_job"
    /\ \/ /\ table_rows' = WriteDisposition(table_rows, SkipLeadingRows(csv_rows, 1))
          /\ log' = Append(log, LoaderEvent("wait_job", TRUE, "", SkipLeadingRows(csv_rows, 1)))
          /\ pc' = "get_table" /\ UNCHANGED exit_code
       \/ /\ log' = Append(log, LoaderEvent("wait_job", FALSE, "", <<>>))
          /\ Raise
          /\ UNCHANGED table_rows
    /\ UNCHANGED << config, runnerVars, dataset_exists, dataset_location,
                    csv_rows, runs, diagVars >>

\* table = client.get_table(table_id)
LoaderGetTable ==
    /\ pc = "get_table"
    /\ \/ /\ pc' = "finish" /\ UNCHANGED exit_code
          /\ log' = Append(log, LoaderEvent("get_table", TRUE, "", table_rows))
       \/ /\ Raise
          /\ log' = Append(log, LoaderEvent("get_table", FALSE, "", <<>>))
    /\ UNCHANGED << config, runnerVars, loaderVars, diagVars >>

\* return 0
LoaderReturn ==
    /\ pc = "finish"
    /\ exit_code' = 0
    /\ pc' = "done"
    /\ UNCHANGED << log, config, runnerVars, loaderVars, diagVars >>

\* The pipeline runs the script again, with the CSV file of that run.
NextLoaderRun ==
    /\ pc \in {"done", "raised"}
    /\ runs < MaxRuns
    /\ runs' = runs + 1
    /\ csv_rows' \in CsvFiles
    /\ pc' = "main"
    /\ exit_code' = -1
    /\ config' = NoConfig
    /\ UNCHANGED << log, runnerVars, dataset_exists, dataset_location, table_rows, diagVars >>

NextLoader ==
    \/ LoaderLoadConfig
    \/ LoaderGetClient
    \/ GetDatasetOk
    \/ GetDatasetRaises
    \/ CreateDataset
    \/ LoadTableSchema
    \/ SubmitLoadJob
    \/ WaitLoadJob
    \/ LoaderGetTable
    \/ LoaderReturn
    \/ NextLoaderRun

SpecLoader == InitLoader /\ [][NextLoader]_vars

(***************************************************************************)
(* Claims about the Data Loader.                                           *)
(***************************************************************************)
StepRank(kind) ==
    CASE kind = "load_config"    -> 1
      [] kind = "client"         -> 2
      [] kind = "get_dataset"    -> 3
      [] kind = "create_dataset" -> 4
      [] kind = "schema"         -> 5
      [] kind = "submit"         -> 6
      [] kind = "wait_job"       -> 7
      [] kind = "get_table"      -> 8

\* C4: the steps of a run happen in the order load config, build client,
\* ensure dataset (get, then create if the get raised), load schema, submit,
\* wait, fetch table; a step that failed is the last step of its run; main
\* returns 0 only after the job was submitted and reported completion.
C4_LoaderFailFast ==
    /\ \A k \in DOMAIN log :
          /\ (k = 1 \/ log[k - 1].run # log[k].run) => log[k].kind = "load_config"
          /\ (k > 1 /\ log[k - 1].run = log[k].run) =>
                \/ /\ log[k - 1].ok
                   /\ StepRank(log[k].kind) = StepRank(log[k - 1].kind) + 1
                   /\ log[k].kind # "create_dataset"
                \/ /\ log[k - 1].kind = "get_dataset" /\ log[k - 1].ok
                   /\ log[k].kind = "schema"
                \/ /\ log[k - 1].kind = "get_dataset" /\ ~log[k - 1].ok
                   /\ log[k].kind = "create_dataset"
    /\ pc = "raised" => exit_code = 1 /\ log # <<>> /\ ~log[Len(log)].ok
    /\ exit_code = 0 =>
          /\ \E k \in DOMAIN log : log[k].run = runs /\ log[k].kind = "submit" /\ log[k].ok
          /\ \E k \in DOMAIN log : log[k].run = runs /\ log[k].kind = "wait_job" /\ log[k].ok
          /\ \A k \in DOMAIN log :
                log[k].run = runs => log[k].ok \/ log[k].kind = "get_dataset"

\* One run was aborted by a failed job and a later run returned 0.
C4_Witness ==
    /\ exit_code = 0 /\ runs = 2
    /\ log[Len(log)].kind = "get_table"
    /\ \E k \in DOMAIN log : log[k].run = 1 /\ log[k].kind = "wait_job" /\ ~log[k].ok

\* C6 (as claimed): a create_dataset call is made only when the dataset is
\* absent, so none is made when it exists; it carries the configured
\* location; and over any number of runs the dataset is created at most once.
C6_CreateOnlyWhenAbsent ==
    /\ \A k \in DOMAIN log :
          log[k].kind = "create_dataset" =>
              ~log[k].existed /\ log[k].location = StdConfig.location
    /\ Cardinality({k \in DOMAIN log : log[k].kind = "create_dataset" /\ log[k].ok}) <= 1

\* C7: when a run's job has completed, the table holds exactly the data rows
\* of that run's CSV file (all lines but the header), whatever it held before
\* and whatever an earlier run loaded.
C7_OverwriteReplacesTable ==
    pc \in {"get_table", "finish", "done"} =>
        /\ Len(table_rows) = (IF csv_rows = <<>> THEN 0 ELSE Len(csv_rows) - 1)
        /\ \A k \in DOMAIN table_rows : table_rows[k] = csv_rows[k + 1]

\* Two successful runs in succession, both loading rows, the second run's
\* rows differing from the first run's.
C7_Witness ==
    /\ pc = "done" /\ exit_code = 0 /\ runs = 2
    /\ table_rows # <<>>
    /\ \E k \in DOMAIN log :
          /\ log[k].run = 1 /\ log[k].kind = "wait_job" /\ log[k].ok
          /\ log[k].rows # <<>> /\ log[k].rows # table_rows

(***************************************************************************)
(* Diagnostic Tool: test_connection.py main.                               *)
(***************************************************************************)
KeyAlphabet == {"{", "}", "1", " "}

\* The value parses as a JSON object (here: the empty object).
IsJsonObject(s) ==
    LET b == Strip(s)
    IN  /\ Len(b) >= 2
        /\ b[1] = "{" /\ b[Len(b)] = "}"
        /\ \A k \in 2..(Len(b) - 1) : b[k] \in Whitespace

\* The value parses as a JSON number.
IsJsonNumber(s) ==
    LET b == Strip(s)
    IN  b # <<>> /\ \A k \in DOMAIN b : b[k] = "1"

\* json.loads(key) returns instead of raising JSONDecodeError
json_loads_ok(s) == IsJsonObject(s) \/ IsJsonNumber(s)

InitDiag ==
    /\ pc = "main"
    /\ exit_code = -1
    /\ log = <<>>
    /\ config = NoConfig
    /\ RunnerIdle /\ LoaderIdle
    /\ key_set \in BOOLEAN
    /\ key \in (IF key_set THEN TextsUpTo(KeyAlphabet, MaxKeyLen) ELSE {<<>>})
    /\ success = TRUE
    /\ results = <<>>

\* test_environment(): "if not key" covers the unset and the empty value
test_environment_result == key_set /\ key # <<>> /\ json_loads_ok(key)

\* if not test_environment(): success = False
TestEnvironment ==
    /\ pc = "main"
    /\ ~(key_set /\ key # <<>> /\ json_loads_ok(key) /\ ~IsJsonObject(key))
    /\ results' = Append(results, test_environment_result)
    /\ success' = test_environment_result
    /\ pc' = "check_connection"
    /\ UNCHANGED << exit_code, log, config, runnerVars, loaderVars, key_set, key >>

\* json.loads returned a value without .get: AttributeError is not caught
TestEnvironmentCrash ==
    /\ pc = "main"
    /\ key_set /\ key # <<>> /\ json_loads_ok(key) /\ ~IsJsonObject(key)
    /\ Raise
    /\ UNCHANGED << log, config, runnerVars, loaderVars, diagVars >>

\* A plausible slip: the second test runs whatever the first one returned.
RunsConnectionTestAlways(ok) == TRUE

\* if success and not test_bigquery_connection(): short-circuit on success
RunsConnectionTest(ok) == ok

SkipConnectionTest ==
    /\ pc = "check_connection"
    /\ ~RunsConnectionTest(success)
    /\ pc' = "final"
    /\ UNCHANGED << exit_code, log, config, runnerVars, loaderVars, diagVars >>

EnterConnectionTest ==
    /\ pc = "check_connection"
    /\ RunsConnectionTest(success)
    /\ log' = Append(log, Event("enter", "test_bigquery_connection", <<>>, TRUE, 0))
    /\ pc' = "import"
    /\ UNCHANGED << exit_code, config, runnerVars, loaderVars, diagVars >>

\* test_bigquery_connection returns ret to main
ConnectionReturns(ret) ==
    /\ results' = Append(results, ret)
    /\ success' = (success /\ ret)
    /\ pc' = "final"
    /\ UNCHANGED << key_set, key >>

\* from google.cloud import bigquery ...
ImportLibrary ==
    /\ pc = "import"
    /\ \/ pc' = "load_config" /\ UNCHANGED diagVars
       \/ ConnectionReturns(FALSE)
    /\ UNCHANGED << exit_code, log, config, runnerVars, loaderVars >>

\* yaml.safe_load(config/config.yaml)
DiagLoadConfig ==
    /\ pc = "load_config"
    /\ \/ config' = StdConfig /\ pc' = "create_client" /\ UNCHANGED diagVars
       \/ config' = config /\ ConnectionReturns(FALSE)
    /\ UNCHANGED << exit_code, log, runnerVars, loaderVars >>

\* json.loads(key), from_service_account_info, bigquery.Client
CreateClient ==
    /\ pc = "create_client"
    /\ \/ /\ key_set /\ IsJsonObject(key)
          /\ log' = Append(log, Event("client", "test_bigquery_connection", <<>>, TRUE, 0))
          /\ pc' = "list_datasets" /\ UNCHANGED diagVars
       \/ log' = log /\ ConnectionReturns(FALSE)
    /\ UNCHANGED << exit_code, config, runnerVars, loaderVars >>

\* list(client.list_datasets())
ListDatasets ==
    /\ pc = "list_datasets"
    /\ \/ /\ log' = Append(log, Event("list_datasets", "test_bigquery_connection", <<>>, TRUE, 0))
          /\ pc' = "get_dataset" /\ UNCHANGED diagVars
       \/ /\ log' = Append(log, Event("list_datasets", "test_bigquery_connection", <<>>, FALSE, 0))
          /\ ConnectionReturns(FALSE)
    /\ UNCHANGED << exit_code, config, runnerVars, loaderVars >>

\* client.get_dataset(dataset_id): informational, then return True
DiagGetDataset ==
    /\ pc = "get_dataset"
    /\ \E ok \in BOOLEAN :
          log' = Append(log, Event("get_dataset", "test_bigquery_connection", <<>>, ok, 0))
    /\ ConnectionReturns(TRUE)
    /\ UNCHANGED << exit_code, config, runnerVars, loaderVars >>

\* return 0 if success else 1
DiagReturn ==
    /\ pc = "final"
    /\ exit_code' = (IF success THEN 0 ELSE 1)
    /\ pc' = "done"
    /\ UNCHANGED << log, config, runnerVars, loaderVars, diagVars >>

NextDiag ==
    \/ TestEnvironment
    \/ TestEnvironmentCrash
    \/ SkipConnectionTest
    \/ EnterConnectionTest
    \/ ImportLibrary
    \/ DiagLoadConfig
    \/ CreateClient
    \/ ListDatasets
    \/ DiagGetDataset
    \/ DiagReturn

SpecDiag == InitDiag /\ [][NextDiag]_vars

(***************************************************************************)
(* Claims about the Diagnostic Tool.                                       *)
(***************************************************************************)
\* The text is a complete JSON document over the key alphabet: optional
\* blanks around either digits only or an opening and a closing brace with
\* only blanks between them.
WellFormedJson(s) ==
    LET inked == {k \in 1..Len(s) : s[k] # " "}
    IN  /\ inked # {}
        /\ \/ /\ \A k \in inked : s[k] = "1"
              /\ \A k \in 1..Len(s) : (\E a, b \in inked : a < k /\ k < b) => k \in inked
           \/ /\ Cardinality(inked) = 2
              /\ \E a, b \in inked : a < b /\ s[a] = "{" /\ s[b] = "}"

\* C5: with the variable unset, or set to text that is not valid JSON, main
\* returns 1, test_bigquery_connection is never entered, no client is built
\* and no API call is made; main returns 0 only if both checks returned true.
C5_BadKeyFailsWithoutApiCall ==
    /\ (~key_set \/ ~WellFormedJson(key)) =>
          /\ log = <<>>
          /\ pc \notin {"import", "load_config", "create_client", "list_datasets",
                        "get_dataset", "raised"}
          /\ exit_code \in {-1, 1}
          /\ pc = "done" => exit_code = 1
    /\ exit_code = 0 => results = <<TRUE, TRUE>>

\* main has returned 1 for a value that is set but not valid JSON.
C5_Witness ==
    /\ pc = "done" /\ exit_code = 1
    /\ key_set /\ key # <<>> /\ ~WellFormedJson(key)
    /\ results = <<FALSE>>

(***************************************************************************)
(* C8: substitution of the three placeholders.                             *)
(***************************************************************************)
Placeholders == { PH_PROJECT, PH_DATASET, PH_TABLE }

MatchAt(s, k, pat) ==
    /\ k >= 1
    /\ k + Len(pat) - 1 <= Len(s)
    /\ SubSeq(s, k, k + Len(pat) - 1) = pat

RECURSIVE SimultaneousSubst(_, _)
\* The input with each placeholder occurrence of the INPUT replaced, in one
\* left-to-right pass; inserted values are copied and never looked at again.
SimultaneousSubst(s, cfg) ==
    IF s = <<>> THEN <<>>
    ELSE IF MatchAt(s, 1, PH_PROJECT)
         THEN cfg.gcp_project_id
                \o SimultaneousSubst(SubSeq(s, Len(PH_PROJECT) + 1, Len(s)), cfg)
    ELSE IF MatchAt(s, 1, PH_DATASET)
         THEN cfg.dataset_id
                \o SimultaneousSubst(SubSeq(s, Len(PH_DATASET) + 1, Len(s)), cfg)
    ELSE IF MatchAt(s, 1, PH_TABLE)
         THEN cfg.table_id
                \o SimultaneousSubst(SubSeq(s, Len(PH_TABLE) + 1, Len(s)), cfg)
    ELSE <<s[1]>> \o SimultaneousSubst(Tail(s), cfg)

BraceFree(v) == \A k \in 1..Len(v) : v[k] \notin {"{", "}"}

\* Every brace of the text is the opening or closing brace of a placeholder
\* occurrence, and no configured value contains a brace.
WellFormedInput(text, cfg) ==
    /\ BraceFree(cfg.gcp_project_id)
    /\ BraceFree(cfg.dataset_id)
    /\ BraceFree(cfg.table_id)
    /\ \A k \in 1..Len(text) :
          /\ text[k] = "{" => \E ph \in Placeholders : MatchAt(text, k, ph)
          /\ text[k] = "}" => \E ph \in Placeholders : MatchAt(text, k - Len(ph) + 1, ph)

\* C8 (as claimed): for every SQL text and every config the result of
\* substitute_parameters is the input with each placeholder occurrence of the
\* input replaced by its value, everything else unchanged and the inserted
\* values not re-interpreted.
C8_LiteralSubstitution ==
    pc = "subst_done" => sql_content = SimultaneousSubst(file_text, config)

\* C8 (amended): when no configured value contains a brace and every brace of
\* the text belongs to a placeholder occurrence, the result is the input with
\* each placeholder occurrence replaced by its value and all other text
\* unchanged; the example text yields SELECT * FROM p.d.t.
C8_SubstitutionOnWellFormed ==
    pc = "subst_done" =>
        /\ WellFormedInput(file_text, config)
              => sql_content = SimultaneousSubst(file_text, config)
        /\ (file_text = ExampleSQL /\ config = StdConfig) => sql_content = ExampleOut

\* A well-formed text holding all three placeholders has been substituted.
C8_Witness ==
    /\ pc = "subst_done"
    /\ WellFormedInput(file_text, config)
    /\ \A ph \in Placeholders : \E k \in 1..Len(file_text) : MatchAt(file_text, k, ph)
    /\ sql_content # file_text
    /\ \A k \in 1..Len(sql_content) : sql_content[k] \notin {"{", "}"}

====
